---- MODULE Spec2Model ----
(***************************************************************************)
(* A model of ladybug/core.py: LBHeader, LBData and DataList.              *)
(*                                                                         *)
(* Python objects are modelled by identity: `heap` holds the LBData        *)
(* objects, `headers` the LBHeader objects and `lists` the DataList        *)
(* objects; a DataList refers to its samples and its header by index, so   *)
(* that two lists holding the same LBData object are visible as such.      *)
(* Strings are sequences of one-character strings, so that lower(),        *)
(* replace() and isalpha() are computed character by character.            *)
(***************************************************************************)
EXTENDS Integers, Sequences, FiniteSets, TLC

VARIABLES heap, headers, lists, origin, pc, last

vars == <<heap, headers, lists, origin, pc, last>>

(***************************************************************************)
(* Bounds of the model.                                                    *)
(***************************************************************************)
MaxLen == 2
MaxStmtLen == 3

\* the values of the samples, and the hours of the model's year
Values == {0, 1}
HOYs == {1, 2, 3}

(***************************************************************************)
(* Strings.                                                                *)
(***************************************************************************)
Chars == {"x", "X", "o", "r", "%", "2", " "}

UpperCase == {"X"}
LowerCase == {"x", "o", "r", "d", "v", "a", "l", "u", "e", "n", "t", "i", "s"}
Digits == {"2"}

\* str.isalpha() of one character
isalpha(c) == c \in UpperCase \cup LowerCase

\* str.lower()
lowerChar(c) == IF c = "X" THEN "x" ELSE c

lower(s) == [i \in 1..Len(s) |-> lowerChar(s[i])]

\* str.replace(old, new): the non-overlapping occurrences of old, left to right
RECURSIVE replace(_, _, _)
replace(s, old, new) ==
    IF Len(s) < Len(old) THEN s
    ELSE IF SubSeq(s, 1, Len(old)) = old
         THEN new \o replace(SubSeq(s, Len(old) + 1, Len(s)), old, new)
         ELSE <<s[1]>> \o replace(Tail(s), old, new)

RECURSIVE Range(_)
Range(s) == IF s = <<>> THEN {} ELSE {Head(s)} \cup Range(Tail(s))

(***************************************************************************)
(* filterByConditionalStatement: the gate on the statement.                *)
(***************************************************************************)
kwAnd == <<"a", "n", "d">>
kwOr == <<"o", "r">>
kwNot == <<"n", "o", "t">>
kwIn == <<"i", "n">>
kwIs == <<"i", "s">>

\* statement.lower().replace("and", "").replace("or", "").replace("not", "")
\*     .replace("in", "").replace("is", "")
stStatement(statement) ==
    replace(replace(replace(replace(replace(lower(statement),
        kwAnd, <<>>), kwOr, <<>>), kwNot, <<>>), kwIn, <<>>), kwIs, <<>>)

\* TRUE when checkInputStatement returns, FALSE when it raises ValueError:
\* l = [s for s in stStatement if s.isalpha()]; list(set(l)) != ['x'] raises
checkInputStatement(statement) ==
    Range(SelectSeq(stStatement(statement), isalpha)) = {"x"}

(***************************************************************************)
(* eval(statement) of the statement after statement.replace('x',           *)
(* 'd.value'), for the expressions that can be written with Chars: names,  *)
(* decimal numbers, attribute references, the operator % and the keyword   *)
(* or. A result is [err, val]: err is the exception raised ("" for none)   *)
(* and val the integer the expression evaluates to.                        *)
(***************************************************************************)
dValue == <<"d", ".", "v", "a", "l", "u", "e">>

NameChars == UpperCase \cup LowerCase \cup Digits

RECURSIVE RunLen(_, _)
RunLen(s, S) == IF s = <<>> \/ s[1] \notin S THEN 0 ELSE 1 + RunLen(Tail(s), S)

\* Python's tokenizer: a number is a maximal run of digits, a name a maximal
\* run of letters and digits that starts with a letter, blanks separate tokens
RECURSIVE Tokenize(_)
Tokenize(s) ==
    IF s = <<>> THEN <<>>
    ELSE IF s[1] \in Digits
    THEN LET n == RunLen(s, Digits)
         IN  <<[kind |-> "num", text |-> SubSeq(s, 1, n)]>>
                 \o Tokenize(SubSeq(s, n + 1, Len(s)))
    ELSE IF isalpha(s[1])
    THEN LET n == RunLen(s, NameChars)
             t == SubSeq(s, 1, n)
         IN  <<[kind |-> IF t = kwOr THEN "or" ELSE "name", text |-> t]>>
                 \o Tokenize(SubSeq(s, n + 1, Len(s)))
    ELSE IF s[1] = " " THEN Tokenize(Tail(s))
    ELSE <<[kind |-> IF s[1] = "." THEN "dot" ELSE "mod", text |-> <<s[1]>>]>>
             \o Tokenize(Tail(s))

\* the token sequences between the tokens of kind k
RECURSIVE SplitAt(_, _)
SplitAt(ts, k) ==
    IF \A i \in 1..Len(ts) : ts[i].kind # k THEN <<ts>>
    ELSE LET i == CHOOSE j \in 1..Len(ts) :
                      ts[j].kind = k /\ \A h \in 1..(j - 1) : ts[h].kind # k
         IN  <<SubSeq(ts, 1, i - 1)>> \o SplitAt(SubSeq(ts, i + 1, Len(ts)), k)

\* atom trailer*: a number, or a name followed by attribute references
IsAtom(a) ==
    /\ Len(a) >= 1
    /\ \/ Len(a) = 1 /\ a[1].kind = "num"
       \/ /\ Len(a) % 2 = 1
          /\ \A i \in 1..Len(a) : a[i].kind = IF i % 2 = 1 THEN "name" ELSE "dot"

\* or_test: term ('or' term)*, term: atom ('%' atom)*
SyntaxOK(ts) ==
    LET terms == SplitAt(ts, "or")
    IN  \A g \in 1..Len(terms) :
            LET atoms == SplitAt(terms[g], "mod")
            IN  \A a \in 1..Len(atoms) : IsAtom(atoms[a])

Ok(n) == [err |-> "", val |-> n]
Raise(e) == [err |-> e, val |-> 0]

DigitVal(c) == IF c = "2" THEN 2 ELSE 0

RECURSIVE NumVal(_)
NumVal(t) ==
    IF t = <<>> THEN 0
    ELSE NumVal(SubSeq(t, 1, Len(t) - 1)) * 10 + DigitVal(t[Len(t)])

\* The names in scope are the local d (the sample of the comprehension) and
\* the builtins; of the builtins only ord can be written with Chars. A d or
\* an ord of the text comes from the replacement of an x, so an attribute
\* reference follows it: d.value is the sample's value, LBData has
\* __slots__ and no other attribute of these names, and ord has none.
EvalAtom(a, v) ==
    IF a[1].kind = "num" THEN Ok(NumVal(a[1].text))
    ELSE IF a[1].text = <<"d">>
    THEN IF Len(a) = 3 /\ a[3].text = <<"v", "a", "l", "u", "e">>
         THEN Ok(v)
         ELSE Raise("AttributeError")
    ELSE IF a[1].text = <<"o", "r", "d">>
    THEN Raise("AttributeError")
    ELSE Raise("NameError")

\* a % b % c, left to right
RECURSIVE ModChain(_, _, _)
ModChain(acc, rest, v) ==
    IF acc.err # "" \/ rest = <<>> THEN acc
    ELSE LET r == EvalAtom(Head(rest), v)
         IN  IF r.err # "" THEN r
             ELSE IF r.val = 0 THEN Raise("ZeroDivisionError")
             ELSE ModChain(Ok(acc.val % r.val), Tail(rest), v)

EvalTerm(g, v) ==
    LET atoms == SplitAt(g, "mod")
    IN  ModChain(EvalAtom(atoms[1], v), Tail(atoms), v)

\* a or b: b is evaluated only when a is false
RECURSIVE EvalOr(_, _)
EvalOr(terms, v) ==
    LET r == EvalTerm(Head(terms), v)
    IN  IF r.err # "" \/ r.val # 0 \/ Len(terms) = 1 THEN r
        ELSE EvalOr(Tail(terms), v)

\* eval(text) with d.value = v
eval(text, v) ==
    LET ts == Tokenize(text)
    IN  IF ~SyntaxOK(ts) THEN Raise("SyntaxError")
        ELSE EvalOr(SplitAt(ts, "or"), v)

\* [d for d in self.__data if eval(statement)]: the positions kept, or the
\* exception of the first sample whose evaluation raises
RECURSIVE CondLoop(_, _, _, _)
CondLoop(text, vals, i, kept) ==
    IF i > Len(vals) THEN [outcome |-> "ok", kept |-> kept, evaluated |-> Len(vals)]
    ELSE LET r == eval(text, vals[i])
         IN  IF r.err # "" THEN [outcome |-> r.err, kept |-> <<>>, evaluated |-> i]
             ELSE CondLoop(text, vals, i + 1,
                           IF r.val # 0 THEN Append(kept, i) ELSE kept)

\* the body of filterByConditionalStatement up to filteredData, on the
\* sample values vals
ConditionalFilter(vals, statement) ==
    IF ~checkInputStatement(statement)
    THEN [outcome |-> "ValueError", kept |-> <<>>, evaluated |-> 0]
    ELSE CondLoop(replace(statement, <<"x">>, dValue), vals, 1, <<>>)

(***************************************************************************)
(* The time stamps and AnalysisPeriod (analysisperiod.py): a time stamp    *)
(* exposes HOY and month; a period covers the hours st..end of a year that *)
(* has the hours HOYs, in two months.                                      *)
(***************************************************************************)
\* the first month of the model's year has two hours, the second one
monthOf(h) == IF h \in {1, 2} THEN 1 ELSE 2

DateTime(h) == [HOY |-> h, month |-> monthOf(h)]

DateTimes == {DateTime(h) : h \in HOYs}

Months == {t.month : t \in DateTimes}

Period(st, end) == [kind |-> "period", st |-> st, end |-> end]

\* what an analysisPeriod argument or field holds when it holds no period
None == [kind |-> "None", st |-> 0, end |-> 0]
Unknown == [kind |-> "unknown", st |-> 0, end |-> 0]
NA == [kind |-> "N/A", st |-> 0, end |-> 0]

Periods == {p \in {Period(a, b) : a \in HOYs, b \in HOYs} : p.st <= p.end}

\* AnalysisPeriod(): the whole year
LastHOY == CHOOSE h \in HOYs : \A g \in HOYs : g <= h

AnnualPeriod == Period(1, LastHOY)

isAnnual(ap) == ap.st = 1 /\ ap.end = LastHOY

totalNumOfHours(ap) == ap.end - ap.st + 1

dates(ap) == [i \in 1..totalNumOfHours(ap) |-> DateTime(ap.st + i - 1)]

isTimeIncluded(ap, t) == ap.st <= t.HOY /\ t.HOY <= ap.end

(***************************************************************************)
(* LBHeader.                                                               *)
(***************************************************************************)
LBHeader(city, dataType, unit, frequency, analysisPeriod) ==
    [city |-> city, dataType |-> dataType, unit |-> unit, frequency |-> frequency,
     analysisPeriod |-> IF analysisPeriod.kind = "None" THEN Unknown
                        ELSE analysisPeriod]

HeaderFields == {"city", "dataType", "unit", "frequency", "analysisPeriod"}

\* a duplicate that is the header itself (a shallow alias)
duplicateShared(hs, h) == [hs |-> hs, id |-> h]

\* copy.deepcopy(self): a new header object, [hs: the headers, id: the copy]
duplicate(hs, h) == [hs |-> Append(hs, hs[h]), id |-> Len(hs) + 1]

\* a header whose period is left as it was
withPeriodKept(header, period) == header

\* filteredHeader.analysisPeriod = period
withPeriod(header, period) == [header EXCEPT !.analysisPeriod = period]

(***************************************************************************)
(* LBData and DataList.                                                    *)
(***************************************************************************)
LBData(value, dateTime) == [value |-> value, datetime |-> dateTime]

\* an element that is no LBData object (a number, a string); the LBData
\* objects are the positions of heap
NotLBData == 0

\* isinstance(data, LBData)
isLBData(d) == d # NotLBData

\* returns the object it is given
fromLBData(d) == d

checkInputData(data) ==
    IF data = <<>> THEN <<>> ELSE [i \in 1..Len(data) |-> fromLBData(data[i])]

DataList(data, header) == [data |-> checkInputData(data), header |-> header]

\* the values of the samples of a list, in order
ValuesOf(hp, data) == [i \in 1..Len(data) |-> hp[data[i]].value]

ListIds == 1..Len(lists)

\* the record of a call: the operation, the receiver, how it ended ("ok" or
\* the exception), the list returned (0: none), and what it printed or computed
Call(op, recv, arg, outcome, ret) ==
    [op |-> op, recv |-> recv, arg |-> arg, outcome |-> outcome, ret |-> ret,
     given |-> 0, expected |-> 0, count |-> 0, evaluated |-> 0, groups |-> <<>>]

FilterOps == {"filterByAnalysisPeriod", "filterByHOYs",
              "filterByConditionalStatement", "filterByPattern"}

UpdateOps == {"updateDataForAnAnalysisPeriod", "updateDataForHoursOfYear",
              "updateDataForAnHour"}

\* filteredHeader = self.header.duplicate(); filteredHeader.analysisPeriod =
\* period; DataList(filteredData, filteredHeader)
NewDataList(s, filteredData, period, op, statement) ==
    LET dup == duplicate(headers, lists[s].header)
    IN  /\ headers' = [dup.hs EXCEPT ![dup.id] = withPeriod(@, period)]
        /\ lists' = Append(lists, DataList(filteredData, dup.id))
        /\ origin' = Append(origin, [parent |-> s, op |-> op, period |-> period,
                                     statement |-> statement])
        /\ heap' = heap

Unchanged == UNCHANGED <<heap, headers, lists, origin>>

\* [d for d in self.__data if analysisPeriod.isTimeIncluded(d.datetime)]

filteredByPeriod(hp, data, analysisPeriod) ==
    SelectSeq(data, LAMBDA d : isTimeIncluded(analysisPeriod, hp[d].datetime))

\* a filter that never takes the early return
returnsSelfNever(analysisPeriod) == FALSE

\* not analysisPeriod or analysisPeriod.isAnnual
returnsSelf(analysisPeriod) ==
    analysisPeriod.kind = "None" \/ isAnnual(analysisPeriod)

FilterByAnalysisPeriod(s, analysisPeriod) ==
    /\ IF returnsSelf(analysisPeriod)
       THEN /\ Unchanged
            /\ last' = Call("filterByAnalysisPeriod", s, analysisPeriod, "ok", s)
       ELSE /\ NewDataList(s, filteredByPeriod(heap, lists[s].data, analysisPeriod),
                           analysisPeriod, "filterByAnalysisPeriod", <<>>)
            /\ last' = Call("filterByAnalysisPeriod", s, analysisPeriod, "ok",
                            Len(lists) + 1)

\* [d for d in self.__data if d.datetime.HOY in HOYs]
filteredByHOYs(hp, data, HOYset) ==
    SelectSeq(data, LAMBDA d : hp[d].datetime.HOY \in HOYset)

FilterByHOYs(s, HOYset) ==
    /\ NewDataList(s, filteredByHOYs(heap, lists[s].data, HOYset), Unknown,
                   "filterByHOYs", <<>>)
    /\ last' = Call("filterByHOYs", s, HOYset, "ok", Len(lists) + 1)

\* the samples at the positions kept but the first
keptFromSecond(data, kept) == [i \in 1..Len(kept) - 1 |-> data[kept[i + 1]]]

\* the samples at the positions kept
keptData(data, kept) == [i \in 1..Len(kept) |-> data[kept[i]]]

FilterByConditionalStatement(s, statement) ==
    /\ LET r == ConditionalFilter(ValuesOf(heap, lists[s].data), statement)
       IN  IF r.outcome = "ok"
           THEN /\ NewDataList(s, keptData(lists[s].data, r.kept), NA,
                               "filterByConditionalStatement", statement)
                /\ last' = [Call("filterByConditionalStatement", s, statement, "ok",
                                 Len(lists) + 1) EXCEPT !.evaluated = r.evaluated]
           ELSE /\ Unchanged
                /\ last' = [Call("filterByConditionalStatement", s, statement,
                                 r.outcome, 0) EXCEPT !.evaluated = r.evaluated]

\* len(self.values): values is a method of DataList, and a method has no len()
lenOfValues(data) == Raise("TypeError")

\* "... %d ... %d" % AnalysisPeriod(len(self.values), len(patternList)): one
\* object for two conversions
patternMessage == Raise("TypeError")

\* [d for count, d in enumerate(self.__data) if patternList[count]]
filteredByPattern(data, patternList) ==
    LET kept == SelectSeq([i \in 1..Len(data) |-> i], LAMBDA i : patternList[i])
    IN  keptData(data, kept)

FilterByPattern(s, patternList) ==
    /\ LET n == lenOfValues(lists[s].data)
           c == [Call("filterByPattern", s, patternList, "ok", 0) EXCEPT
                    !.given = Len(patternList), !.expected = Len(lists[s].data)]
       IN  IF n.err # ""
           THEN Unchanged /\ last' = [c EXCEPT !.outcome = n.err]
           ELSE IF n.val # Len(patternList)
           THEN Unchanged /\ last' = [c EXCEPT !.outcome = patternMessage.err]
           ELSE /\ NewDataList(s, filteredByPattern(lists[s].data, patternList), NA,
                               "filterByPattern", <<>>)
                /\ last' = [c EXCEPT !.ret = Len(lists) + 1]

(***************************************************************************)
(* The update operations.                                                  *)
(***************************************************************************)
\* a length check that lets too few values through
lengthsDifferShorter(n, m) == n > m

\* len(values) != analysisPeriod.totalNumOfHours, len(values) != len(hoursOfYear)
lengthsDiffer(n, m) == n # m

\* raise ValueError("... %d is not equal to " + "... %d" % (n, m)): % binds
\* tighter than +, so the second string is formatted alone with two
\* arguments for its one conversion
lengthMessage == Raise("TypeError")

\* newValues = {}; for count, value in enumerate(values):
\*     newValues[keys[count]] = value
newValues(values, keys) ==
    [h \in {keys[i] : i \in 1..Len(values)} |->
        values[CHOOSE i \in 1..Len(values) :
                   keys[i] = h /\ \A j \in (i + 1)..Len(values) : keys[j] # h]]

\* data.updateValue(value): LBData defines no updateValue (and has __slots__)
updateValue(hp, d, value) == [err |-> "AttributeError", heap |-> hp]

\* for counter, data in enumerate(self.__data): try: value =
\* newValues[data.datetime.HOY]; data.updateValue(value); updatedCount += 1
\* except KeyError: pass
RECURSIVE UpdateLoop(_, _, _, _, _)
UpdateLoop(hp, data, nv, i, updatedCount) ==
    IF i > Len(data) THEN [outcome |-> "ok", heap |-> hp, count |-> updatedCount]
    ELSE IF ~isLBData(data[i])
    THEN [outcome |-> "AttributeError", heap |-> hp, count |-> updatedCount]
    ELSE IF hp[data[i]].datetime.HOY \notin DOMAIN nv
    THEN UpdateLoop(hp, data, nv, i + 1, updatedCount)
    ELSE LET r == updateValue(hp, data[i], nv[hp[data[i]].datetime.HOY])
         IN  IF r.err # ""
             THEN [outcome |-> r.err, heap |-> r.heap, count |-> updatedCount]
             ELSE UpdateLoop(r.heap, data, nv, i + 1, updatedCount + 1)

\* the body the update operations share: the length check, the mapping of
\* the hours to the values, the walk over the samples
Update(op, s, values, keys, expected) ==
    LET c == [Call(op, s, [values |-> values, keys |-> keys], "ok", 0) EXCEPT
                 !.given = Len(values), !.expected = expected]
    IN  IF lengthsDiffer(Len(values), expected)
        THEN Unchanged /\ last' = [c EXCEPT !.outcome = lengthMessage.err]
        ELSE IF Len(values) > Len(keys)
        THEN Unchanged /\ last' = [c EXCEPT !.outcome = "IndexError"]
        ELSE LET r == UpdateLoop(heap, lists[s].data, newValues(values, keys), 1, 0)
             IN  /\ heap' = r.heap
                 /\ UNCHANGED <<headers, lists, origin>>
                 /\ last' = [c EXCEPT !.outcome = r.outcome, !.count = r.count,
                                      !.ret = IF r.outcome = "ok" THEN s ELSE 0]

UpdateDataForAnAnalysisPeriod(s, values, analysisPeriod) ==
    LET ap == IF analysisPeriod.kind = "None" THEN AnnualPeriod ELSE analysisPeriod
        timeStamps == dates(ap)
    IN  Update("updateDataForAnAnalysisPeriod", s, values,
               [i \in 1..Len(timeStamps) |-> timeStamps[i].HOY], totalNumOfHours(ap))

UpdateDataForHoursOfYear(s, values, hoursOfYear) ==
    Update("updateDataForHoursOfYear", s, values, hoursOfYear, Len(hoursOfYear))

UpdateDataForAnHour(s, value, hourOfYear) ==
    Update("updateDataForAnHour", s, <<value>>, <<hourOfYear>>, 1)

(***************************************************************************)
(* What a caller does with a list it holds: list[i].value = v (the setter  *)
(* of LBData.value) and list.header.<field> = v.                           *)
(***************************************************************************)
SetValue(s, i, v) ==
    /\ heap' = [heap EXCEPT ![lists[s].data[i]].value = v]
    /\ UNCHANGED <<headers, lists, origin>>
    /\ last' = Call("setValue", s, <<i, v>>, "ok", 0)

Edited(f) == IF f = "analysisPeriod" THEN None ELSE "edited"

SetHeader(s, f) ==
    /\ headers' = [headers EXCEPT ![lists[s].header][f] = Edited(f)]
    /\ UNCHANGED <<heap, lists, origin>>
    /\ last' = Call("setHeader", s, f, "ok", 0)

(***************************************************************************)
(* groupDataByMonth.                                                       *)
(***************************************************************************)
\* userDataList=None
NoList == [given |-> FALSE, list |-> <<>>]

UserList(l) == [given |-> TRUE, list |-> l]

\* a bucket that grows at its front
appendedFirst(groups, key, d) ==
    IF key \in DOMAIN groups THEN [groups EXCEPT ![key] = <<d>> \o @]
    ELSE [k \in DOMAIN groups \cup {key} |-> IF k = key THEN <<d>> ELSE groups[k]]

\* if key not in groups: groups[key] = []
\* groups[key].append(d)
appended(groups, key, d) ==
    IF key \in DOMAIN groups THEN [groups EXCEPT ![key] = Append(@, d)]
    ELSE [k \in DOMAIN groups \cup {key} |-> IF k = key THEN <<d>> ELSE groups[k]]

RECURSIVE MonthLoop(_, _, _, _, _)
MonthLoop(hp, data, monthRange, i, groups) ==
    IF i > Len(data) THEN groups
    ELSE IF hp[data[i]].datetime.month \notin monthRange
    THEN MonthLoop(hp, data, monthRange, i + 1, groups)
    ELSE MonthLoop(hp, data, monthRange, i + 1,
                   appended(groups, hp[data[i]].datetime.month, data[i]))

\* data = [LBData.fromLBData(d) for d in userDataList] if userDataList
\*        else self.__data
dataToGroup(own, userDataList) ==
    IF userDataList.given /\ userDataList.list # <<>>
    THEN [i \in 1..Len(userDataList.list) |-> fromLBData(userDataList.list[i])]
    ELSE own

groupDataByMonth(hp, own, monthRange, userDataList) ==
    MonthLoop(hp, dataToGroup(own, userDataList), monthRange, 1, <<>>)

GroupDataByMonth(s, monthRange, userDataList) ==
    /\ Unchanged
    /\ last' = [Call("groupDataByMonth", s,
                     [range |-> monthRange, userDataList |-> userDataList],
                     "ok", 0)
                   EXCEPT !.groups = groupDataByMonth(heap, lists[s].data,
                                                      monthRange, userDataList)]

(***************************************************************************)
(* groupDataByDay, groupDataByHour, averageMonthly and                     *)
(* averageMonthlyForEachHour. The hours of the model's year are the hours  *)
(* of one day, so the hour of a time stamp is its HOY.                     *)
(***************************************************************************)
\* d.datetime.hour
hourOf(t) == t.HOY

Hours == {hourOf(t) : t \in DateTimes}

\* DOY = DateTimeLib.getDayOfYear(...): core.py neither imports nor defines
\* DateTimeLib, so the first sample of the loop raises NameError
groupDataByDay(hp, own, dayRange, userDataList) ==
    IF dataToGroup(own, userDataList) = <<>>
    THEN [outcome |-> "ok", groups |-> <<>>]
    ELSE [outcome |-> "NameError", groups |-> <<>>]

GroupDataByDay(s, dayRange, userDataList) ==
    /\ Unchanged
    /\ LET r == groupDataByDay(heap, lists[s].data, dayRange, userDataList)
       IN  last' = [Call("groupDataByDay", s,
                         [range |-> dayRange, userDataList |-> userDataList],
                         r.outcome, 0)
                       EXCEPT !.groups = r.groups]

RECURSIVE HourLoop(_, _, _, _, _)
HourLoop(hp, data, hourRange, i, groups) ==
    IF i > Len(data) THEN groups
    ELSE IF hourOf(hp[data[i]].datetime) \notin hourRange
    THEN HourLoop(hp, data, hourRange, i + 1, groups)
    ELSE HourLoop(hp, data, hourRange, i + 1,
                  appended(groups, hourOf(hp[data[i]].datetime), data[i]))

groupDataByHour(hp, own, hourRange, userDataList) ==
    HourLoop(hp, dataToGroup(own, userDataList), hourRange, 1, <<>>)

GroupDataByHour(s, hourRange, userDataList) ==
    /\ Unchanged
    /\ last' = [Call("groupDataByHour", s,
                     [range |-> hourRange, userDataList |-> userDataList],
                     "ok", 0)
                   EXCEPT !.groups = groupDataByHour(heap, lists[s].data,
                                                     hourRange, userDataList)]

RECURSIVE sum(_)
sum(values) == IF values = <<>> THEN 0 ELSE Head(values) + sum(Tail(values))

\* values = [value.value for value in data]; sum(values) / len(data), of
\* integers (a bucket is never empty)
average(hp, data) == sum(ValuesOf(hp, data)) \div Len(data)

\* groupDataByMonth(userDataList=userDataList), for the months 1-12, then
\* the average of each bucket
averageMonthly(hp, own, userDataList) ==
    LET monthlyValues == groupDataByMonth(hp, own, Months, userDataList)
    IN  [month \in DOMAIN monthlyValues |-> average(hp, monthlyValues[month])]

AverageMonthly(s, userDataList) ==
    /\ Unchanged
    /\ last' = [Call("averageMonthly", s,
                     [range |-> Months, userDataList |-> userDataList], "ok", 0)
                   EXCEPT !.groups = averageMonthly(heap, lists[s].data,
                                                    userDataList)]

\* groupDataByMonth(userDataList=userDataList), then for each month
\* groupDataByHour(userDataList=monthlyValues), for the hours 1-24, and the
\* average of each bucket
averageMonthlyForEachHour(hp, own, userDataList) ==
    LET monthlyHourlyValues == groupDataByMonth(hp, own, Months, userDataList)
    IN  [month \in DOMAIN monthlyHourlyValues |->
            LET groupedHourlyData ==
                    groupDataByHour(hp, own, Hours,
                                    UserList(monthlyHourlyValues[month]))
            IN  [hour \in DOMAIN groupedHourlyData |->
                    average(hp, groupedHourlyData[hour])]]

AverageMonthlyForEachHour(s, userDataList) ==
    /\ Unchanged
    /\ last' = [Call("averageMonthlyForEachHour", s,
                     [range |-> Months, userDataList |-> userDataList], "ok", 0)
                   EXCEPT !.groups = averageMonthlyForEachHour(heap, lists[s].data,
                                                               userDataList)]

(***************************************************************************)
(* The specifications. A caller constructs a DataList of up to MaxLen      *)
(* samples and calls its operations; pc is the caller's position.          *)
(***************************************************************************)
DefaultHeader == LBHeader("unknown", "unknown", "unknown", "unknown", None)

EPWHeader == LBHeader("city", "Dry Bulb Temperature", "C", "Hourly", AnnualPeriod)

\* DataList(data, header), the samples stamped with stamps
Constructed(stamps, hdrs) ==
    /\ \E n \in 0..MaxLen :
          \E vs \in [1..n -> Values], ts \in [1..n -> stamps] :
              heap = [i \in 1..n |-> LBData(vs[i], ts[i])]
    /\ headers \in {<<h>> : h \in hdrs}
    /\ lists = <<DataList([i \in 1..Len(heap) |-> i], 1)>>
    /\ origin = <<[parent |-> 0, op |-> "DataList", period |-> None,
                   statement |-> <<>>]>>
    /\ pc = "constructed"
    /\ last = Call("DataList", 1, <<>>, "ok", 1)

Init == Constructed(DateTimes, {DefaultHeader, EPWHeader})

Strings(n) == UNION {[1..k -> Chars] : k \in 0..n}

\* the statements the filters of Spec are called with
Statements == {<<"x">>, <<"x", "%", "2">>, <<"X">>, <<"2", "%", "x">>,
               <<"x", " ", "o", "r", " ", "X">>, <<"r", "o", "x">>}

Patterns(n) == UNION {[1..k -> BOOLEAN] : k \in 0..n}

ValueLists(n) == UNION {[1..k -> Values] : k \in 0..n}

HOYLists(n) == UNION {[1..k -> HOYs] : k \in 0..n}

\* the caller's positions: it filters the list it constructed, then filters
\* one of its lists again or changes one of them
Filters == pc \in {"constructed", "filtered"} /\
           pc' = IF pc = "constructed" THEN "filtered" ELSE "done"

Changes == pc = "filtered" /\ pc' = "done"

Calls == pc = "constructed" /\ pc' = "done"

Next ==
    \/ \E s \in ListIds, ap \in Periods \cup {None} :
          Filters /\ FilterByAnalysisPeriod(s, ap)
    \/ \E s \in ListIds, H \in SUBSET HOYs : Filters /\ FilterByHOYs(s, H)
    \/ \E s \in ListIds, st \in Statements :
          Filters /\ FilterByConditionalStatement(s, st)
    \/ \E s \in ListIds, p \in Patterns(MaxLen) : Filters /\ FilterByPattern(s, p)
    \/ \E s \in ListIds : \E i \in 1..Len(lists[s].data), v \in Values :
          Changes /\ SetValue(s, i, v)
    \/ \E s \in ListIds, f \in HeaderFields : Changes /\ SetHeader(s, f)
    \/ \E s \in ListIds, v \in Values, h \in HOYs :
          Changes /\ UpdateDataForAnHour(s, v, h)

Spec == Init /\ [][Next]_vars

\* the caller updates the list it constructed, or filters it by a pattern
InitUpdate == Constructed(DateTimes, {EPWHeader})

NextUpdate ==
    \/ \E s \in ListIds, values \in ValueLists(MaxLen), ap \in Periods \cup {None} :
          Calls /\ UpdateDataForAnAnalysisPeriod(s, values, ap)
    \/ \E s \in ListIds, values \in ValueLists(MaxLen), hoys \in HOYLists(MaxLen) :
          Calls /\ UpdateDataForHoursOfYear(s, values, hoys)
    \/ \E s \in ListIds, v \in Values, h \in HOYs :
          Calls /\ UpdateDataForAnHour(s, v, h)
    \/ \E s \in ListIds, p \in Patterns(MaxLen) : Calls /\ FilterByPattern(s, p)

SpecUpdate == InitUpdate /\ [][NextUpdate]_vars

\* the caller groups the list it constructed by month
UserLists == {NoList} \cup
             {UserList(l) : l \in UNION {[1..k -> 1..Len(heap)] : k \in 0..MaxLen}}

\* the days a caller asks for (the first day of the year, or none)
DayRanges == {{}, {1}}

NextGroup ==
    \/ \E s \in ListIds, monthRange \in SUBSET Months, userDataList \in UserLists :
          Calls /\ GroupDataByMonth(s, monthRange, userDataList)
    \/ \E s \in ListIds, dayRange \in DayRanges, userDataList \in UserLists :
          Calls /\ GroupDataByDay(s, dayRange, userDataList)
    \/ \E s \in ListIds, hourRange \in SUBSET Hours, userDataList \in UserLists :
          Calls /\ GroupDataByHour(s, hourRange, userDataList)
    \/ \E s \in ListIds, userDataList \in UserLists :
          Calls /\ AverageMonthly(s, userDataList)
    \/ \E s \in ListIds, userDataList \in UserLists :
          Calls /\ AverageMonthlyForEachHour(s, userDataList)

SpecGroup == InitUpdate /\ [][NextGroup]_vars

\* the caller filters the list it constructed by any statement of up to
\* MaxStmtLen characters
InitStmt == Constructed({DateTime(1)}, {DefaultHeader})

NextStmt ==
    \E s \in ListIds, statement \in Strings(MaxStmtLen) :
        Calls /\ FilterByConditionalStatement(s, statement)

SpecStmt == InitStmt /\ [][NextStmt]_vars

(***************************************************************************)
(* The operations that put elements into a list: the constructor, append,  *)
(* extend, list[key] = value and del list[key]. An element is an LBData    *)
(* object of heap or NotLBData; a key is a position of the list, or the    *)
(* position after its last, which is out of range.                         *)
(***************************************************************************)
\* checkInputData(data) raises: assert isinstance(data, LBData)
checkInputRaises(data) == \E i \in 1..Len(data) : ~isLBData(data[i])

\* DataList(data)
NewList(data) ==
    IF checkInputRaises(data)
    THEN Unchanged /\ last' = Call("DataList", 0, data, "AssertionError", 0)
    ELSE /\ lists' = Append(lists, DataList(data, Len(headers) + 1))
         /\ headers' = Append(headers, DefaultHeader)
         /\ origin' = Append(origin, [parent |-> 0, op |-> "DataList",
                                      period |-> None, statement |-> <<>>])
         /\ heap' = heap
         /\ last' = Call("DataList", Len(lists) + 1, data, "ok", Len(lists) + 1)

\* self.__data.extend(self.checkInputData(dataList))
Extend(op, s, dataList) ==
    IF checkInputRaises(dataList)
    THEN Unchanged /\ last' = Call(op, s, dataList, "AssertionError", 0)
    ELSE /\ lists' = [lists EXCEPT ![s].data = @ \o checkInputData(dataList)]
         /\ UNCHANGED <<heap, headers, origin>>
         /\ last' = Call(op, s, dataList, "ok", 0)

\* self.extend([data])
AppendData(s, data) == Extend("append", s, <<data>>)

ExtendData(s, dataList) == Extend("extend", s, dataList)

\* self.__data[key] = value
setItem(data, key, value) == [data EXCEPT ![key] = value]

SetItem(s, key, value) ==
    IF key \notin 1..Len(lists[s].data)
    THEN Unchanged /\ last' = Call("__setitem__", s, <<key, value>>, "IndexError", 0)
    ELSE /\ lists' = [lists EXCEPT ![s].data = setItem(@, key, value)]
         /\ UNCHANGED <<heap, headers, origin>>
         /\ last' = Call("__setitem__", s, <<key, value>>, "ok", 0)

\* del self.__data[key]
delItem(data, key) == SubSeq(data, 1, key - 1) \o SubSeq(data, key + 1, Len(data))

DelItem(s, key) ==
    IF key \notin 1..Len(lists[s].data)
    THEN Unchanged /\ last' = Call("__delitem__", s, key, "IndexError", 0)
    ELSE /\ lists' = [lists EXCEPT ![s].data = delItem(@, key)]
         /\ UNCHANGED <<heap, headers, origin>>
         /\ last' = Call("__delitem__", s, key, "ok", 0)

\* the elements a caller has at hand, and the lists of them it passes
Elements == (1..Len(heap)) \cup {NotLBData}

ElementLists(n) == UNION {[1..k -> Elements] : k \in 0..n}

\* the caller constructs a list of samples at one hour, then calls two of
\* the operations that store elements, or an update operation
InitList == Constructed({DateTime(1)}, {DefaultHeader})

Stores == pc \in {"constructed", "stored"} /\
          pc' = IF pc = "constructed" THEN "stored" ELSE "done"

NextList ==
    \/ \E data \in ElementLists(MaxLen) : Stores /\ NewList(data)
    \/ \E s \in ListIds, data \in Elements : Stores /\ AppendData(s, data)
    \/ \E s \in ListIds, dataList \in ElementLists(MaxLen) :
          Stores /\ ExtendData(s, dataList)
    \/ \E s \in ListIds : \E key \in 1..(Len(lists[s].data) + 1), value \in Elements :
          Stores /\ SetItem(s, key, value)
    \/ \E s \in ListIds : \E key \in 1..(Len(lists[s].data) + 1) :
          Stores /\ DelItem(s, key)
    \/ \E s \in ListIds, v \in Values, h \in HOYs :
          Stores /\ UpdateDataForAnHour(s, v, h)

SpecList == InitList /\ [][NextList]_vars

(***************************************************************************)
(* The properties.                                                         *)
(***************************************************************************)
\* the list a list was filtered from (0: it was constructed by the caller)
ParentOf(s) == origin[s].parent

ValueChanges == {"setValue", "updateDataForAnHour"}

\* C1: a value change made through a filter result (setting the value of
\* one of its samples, or an update operation on it) leaves every sample
\* value of the list it was filtered from as it was.
C1_ParentValuesKept ==
    [][(last'.op \in ValueChanges /\ ParentOf(last'.recv) # 0) =>
          ValuesOf(heap', lists[ParentOf(last'.recv)].data) =
              ValuesOf(heap, lists[ParentOf(last'.recv)].data)]_vars

\* the samples of list s whose hour of the year is one of keys
Matching(s, keys) ==
    {i \in 1..Len(lists[s].data) :
        \E j \in 1..Len(keys) : heap[lists[s].data[i]].datetime.HOY = keys[j]}

\* C2: updateDataForHoursOfYear(values, hoursOfYear) with as many values
\* as hours completes normally, sets every sample whose hour is in
\* hoursOfYear to a value paired with that hour, leaves the other samples'
\* values unchanged, and counts the samples whose hour is in hoursOfYear.
C2_UpdateForHoursOfYear ==
    [][(last'.op = "updateDataForHoursOfYear" /\
        Len(last'.arg.values) = Len(last'.arg.keys)) =>
          LET s == last'.recv
              values == last'.arg.values
              keys == last'.arg.keys
          IN  /\ last'.outcome = "ok"
              /\ last'.count = Cardinality(Matching(s, keys))
              /\ \A i \in 1..Len(lists[s].data) :
                    LET d == lists[s].data[i]
                    IN  IF i \in Matching(s, keys)
                        THEN \E j \in 1..Len(keys) :
                                /\ keys[j] = heap[d].datetime.HOY
                                /\ heap'[d].value = values[j]
                        ELSE heap'[d].value = heap[d].value]_vars

MismatchOps == {"updateDataForAnAnalysisPeriod", "updateDataForHoursOfYear",
                "filterByPattern"}

\* C3: a call of updateDataForAnAnalysisPeriod, updateDataForHoursOfYear or
\* filterByPattern whose sequence has not the expected length ends in an
\* error, and the samples, their values, the lists and the headers are as
\* before the call.
C3_MismatchIsError ==
    [][(last'.op \in MismatchOps /\ last'.given # last'.expected) =>
          /\ last'.outcome # "ok"
          /\ heap' = heap
          /\ lists' = lists
          /\ headers' = headers]_vars

\* a call of updateDataForHoursOfYear with too few values for its hours, on
\* a list none of whose samples is at one of the hours that have a value,
\* has ended in an error
C3_Witness ==
    /\ last.op = "updateDataForHoursOfYear"
    /\ last.given >= 1
    /\ last.given < last.expected
    /\ last.outcome = "TypeError"
    /\ lists[last.recv].data # <<>>
    /\ Matching(last.recv, SubSeq(last.arg.keys, 1, last.given)) = {}

\* the statement with the keywords and, or, not, in, is taken out
Stripped(statement) ==
    replace(replace(replace(replace(replace(statement,
        kwAnd, <<>>), kwOr, <<>>), kwNot, <<>>), kwIn, <<>>), kwIs, <<>>)

\* the names an expression refers to: the name tokens that are not attributes
NamesIn(text) ==
    LET ts == Tokenize(text)
    IN  {ts[i].text : i \in {j \in 1..Len(ts) :
                                /\ ts[j].kind = "name"
                                /\ j > 1 => ts[j - 1].kind # "dot"}}

\* C4: filterByConditionalStatement ends in ValueError, with no sample
\* evaluated, for every statement that once the keywords are taken out has
\* a letter other than the lower-case x; and a statement it accepts refers
\* to no name but the sample (d, which the x of the statement becomes).
C4_GateRejectsOtherNames ==
    last.op = "filterByConditionalStatement" =>
        /\ (\E i \in 1..Len(Stripped(last.arg)) :
               isalpha(Stripped(last.arg)[i]) /\ Stripped(last.arg)[i] # "x")
           => (last.outcome = "ValueError" /\ last.evaluated = 0)
        /\ last.outcome # "ValueError"
           => NamesIn(replace(last.arg, <<"x">>, dValue)) \subseteq {<<"d">>}

\* C5: filterByPattern with a pattern as long as the list completes
\* normally and returns a new list of exactly the samples at the positions
\* where the pattern is true, in their order.
C5_PatternKeepsTrue ==
    (last.op = "filterByPattern" /\ Len(last.arg) = Len(lists[last.recv].data)) =>
        /\ last.outcome = "ok"
        /\ last.ret \in ListIds \ {last.recv}
        /\ lists[last.ret].data =
               SelectSeq([i \in 1..Len(last.arg) |->
                             IF last.arg[i] THEN lists[last.recv].data[i] ELSE 0],
                         LAMBDA d : d # 0)

\* C6: a filter call, whether it returns a list or raises, leaves the
\* receiver with the same samples in the same order with the same values,
\* and the receiver's header with the same city, data type, unit, frequency
\* and period.
C6_FilterKeepsReceiver ==
    [][last'.op \in FilterOps =>
          LET s == last'.recv
          IN  /\ lists'[s] = lists[s]
              /\ \A i \in 1..Len(lists[s].data) :
                    heap'[lists[s].data[i]] = heap[lists[s].data[i]]
              /\ headers'[lists[s].header] = headers[lists[s].header]]_vars

\* a filter by a statement has returned a new list that holds some but not
\* all of the samples of its receiver, and the receiver's header has a period
C6_Witness ==
    /\ last.op = "filterByConditionalStatement"
    /\ last.outcome = "ok"
    /\ last.ret # last.recv
    /\ lists[last.ret].data # <<>>
    /\ Len(lists[last.ret].data) < Len(lists[last.recv].data)
    /\ headers[lists[last.recv].header].analysisPeriod = AnnualPeriod

\* the period a filter gives the header of its result
ResultPeriod(op, arg) ==
    IF op = "filterByAnalysisPeriod" THEN arg
    ELSE IF op = "filterByHOYs" THEN Unknown
    ELSE NA

\* C7: the header of the list a filter returns is another object than the
\* receiver's header, equal to it but for the period, which is the filter's
\* period after filterByAnalysisPeriod, "unknown" after filterByHOYs and
\* "N/A" after filterByConditionalStatement and filterByPattern; and a later
\* change of a field of the result's header leaves the header of the list it
\* was filtered from as it was.
C7_ResultHeader ==
    [][/\ (last'.op \in FilterOps /\ last'.outcome = "ok" /\ last'.ret # last'.recv) =>
             /\ lists'[last'.ret].header # lists[last'.recv].header
             /\ headers'[lists'[last'.ret].header] =
                    [headers[lists[last'.recv].header] EXCEPT
                        !.analysisPeriod = ResultPeriod(last'.op, last'.arg)]
       /\ (last'.op = "setHeader" /\ ParentOf(last'.recv) # 0) =>
             headers'[lists[ParentOf(last'.recv)].header] =
                 headers[lists[ParentOf(last'.recv)].header]]_vars

\* the city of the header of a list returned by filterByHOYs has been
\* changed, the list it was filtered from having the header of a weather file
C7_Witness ==
    /\ last.op = "setHeader"
    /\ last.arg = "city"
    /\ ParentOf(last.recv) # 0
    /\ origin[last.recv].op = "filterByHOYs"
    /\ headers[lists[last.recv].header].analysisPeriod = Unknown
    /\ headers[lists[ParentOf(last.recv)].header] = EPWHeader

\* C8: filterByAnalysisPeriod with no period or with the period of the whole
\* year returns the receiver itself, and creates no list and no header,
\* the samples and the headers being as before the call.
C8_AnnualReturnsSelf ==
    [][(last'.op = "filterByAnalysisPeriod" /\
        (last'.arg = None \/ last'.arg = AnnualPeriod)) =>
          /\ last'.outcome = "ok"
          /\ last'.ret = last'.recv
          /\ lists' = lists
          /\ headers' = headers
          /\ heap' = heap]_vars

\* a list that holds samples has been filtered by the period of the whole
\* year, and the call has returned the list
C8_Witness ==
    /\ last.op = "filterByAnalysisPeriod"
    /\ last.arg = AnnualPeriod
    /\ last.ret = last.recv
    /\ lists[last.recv].data # <<>>
    /\ Len(lists) = 1

\* the samples of data in the month m, in the order of data
InMonth(data, m) == SelectSeq(data, LAMBDA d : heap[d].datetime.month = m)

\* C9: groupDataByMonth of a list returns a mapping whose keys are the
\* months of the range in which the list has a sample, each bucket holding
\* the samples of its month, each once, in the order of the list.
C9_GroupsByMonth ==
    (last.op = "groupDataByMonth" /\ ~last.arg.userDataList.given) =>
        LET data == lists[last.recv].data
        IN  /\ DOMAIN last.groups =
                   {m \in last.arg.range : InMonth(data, m) # <<>>}
            /\ \A m \in DOMAIN last.groups : last.groups[m] = InMonth(data, m)

\* a list with two samples in the first month and none in the second has
\* been grouped for both months
C9_Witness ==
    /\ last.op = "groupDataByMonth"
    /\ ~last.arg.userDataList.given
    /\ last.arg.range = Months
    /\ DOMAIN last.groups = {1}
    /\ Len(last.groups[1]) = 2

\* C10: filterByConditionalStatement by a statement, called on the list
\* that a call by the same statement returned, returns a list of the same
\* samples in the same order whose header equals the header of that list,
\* with the period "N/A".
C10_Idempotent ==
    [][(/\ last'.op = "filterByConditionalStatement"
        /\ origin[last'.recv].op = "filterByConditionalStatement"
        /\ origin[last'.recv].statement = last'.arg) =>
          /\ last'.outcome = "ok"
          /\ lists'[last'.ret].data = lists[last'.recv].data
          /\ headers'[lists'[last'.ret].header] = headers[lists[last'.recv].header]
          /\ headers'[lists'[last'.ret].header].analysisPeriod = NA]_vars

\* the statement x%2 has filtered a list that it had filtered from a list
\* of two samples, of which it had kept one
C10_Witness ==
    /\ last.op = "filterByConditionalStatement"
    /\ last.arg = <<"x", "%", "2">>
    /\ last.outcome = "ok"
    /\ origin[last.recv].op = "filterByConditionalStatement"
    /\ origin[last.recv].statement = last.arg
    /\ Len(lists[last.recv].data) = 1
    /\ Len(lists[ParentOf(last.recv)].data) = 2

\* the call was given an element that is no LBData object
GivenNotLBData(call) ==
    \/ /\ call.op \in {"DataList", "append", "extend"}
       /\ \E i \in 1..Len(call.arg) : ~isLBData(call.arg[i])
    \/ /\ call.op = "__setitem__"
       /\ ~isLBData(call.arg[2])

\* C11: after every operation (the constructor, append, extend, an indexed
\* write, an indexed delete, an update) every element of every list is an
\* LBData object; and an operation given an element that is none ends in an
\* error and leaves the lists and the samples as they were.
C11_ElementsAreLBData ==
    [][/\ \A s \in 1..Len(lists') : \A i \in 1..Len(lists'[s].data) :
              isLBData(lists'[s].data[i])
       /\ GivenNotLBData(last') =>
              /\ last'.outcome # "ok"
              /\ lists' = lists
              /\ heap' = heap]_vars

GroupOps == {"groupDataByMonth", "groupDataByDay", "groupDataByHour",
             "averageMonthly", "averageMonthlyForEachHour"}

\* what the operation op returns for a list whose own samples are data,
\* called without a userDataList
OfOwnSamples(op, data, range) ==
    IF op = "groupDataByMonth" THEN groupDataByMonth(heap, data, range, NoList)
    ELSE IF op = "groupDataByDay" THEN groupDataByDay(heap, data, range, NoList).groups
    ELSE IF op = "groupDataByHour" THEN groupDataByHour(heap, data, range, NoList)
    ELSE IF op = "averageMonthly" THEN averageMonthly(heap, data, NoList)
    ELSE averageMonthlyForEachHour(heap, data, NoList)

\* C12: a grouping or averaging operation that is given a userDataList
\* returns the result of the samples of that list alone (what it returns
\* for a list that holds just these samples), whatever the receiver holds;
\* for the empty list the result is the empty mapping.
C12_UserListOnly ==
    (last.op \in GroupOps /\ last.arg.userDataList.given) =>
        /\ last.outcome = "ok"
        /\ last.groups = OfOwnSamples(last.op, last.arg.userDataList.list,
                                      last.arg.range)
        /\ last.arg.userDataList.list = <<>> => DOMAIN last.groups = {}

====
